---- MODULE Spec2Model ----
(***************************************************************************)
(* Model of the Document Assistant terminal front end (app_textual.py):    *)
(* the DocumentAssistantApp message handlers, the worker thread that runs  *)
(* the backend's process_message, and the event-loop timers used by        *)
(* send_message.  Texts are sequences of tokens (characters or fixed       *)
(* labels), so that trimming and message formatting are computed.          *)
(* Time is counted in ticks of 0.1 s, measured from the moment the current *)
(* submission is handed to send_message.                                   *)
(* get_chat_prompt_template of src/prompts.py is modelled as an operator   *)
(* and exercised by a specification of its own.                            *)
(***************************************************************************)
EXTENDS Integers, Sequences, FiniteSets, TLC

\* ---- bounds of the model ----
MaxSubmits == 2    \* non-blank submissions the user makes
MaxTime == 6       \* ticks a request may last
MaxScreens == 1    \* InfoScreens on the screen stack
MaxSessions == 2   \* sessions the backend issues
MaxPending == 1    \* key presses waiting in the App's message queue
MaxPrompts == 2    \* calls of get_chat_prompt_template on record

\* ---- program constants, in ticks of 0.1 s ----
RefreshDelay == 1  \* asyncio.sleep(0.1)
MinDisplay == 5    \* the 0.5 s the thinking indicator is meant to stay

NoAssistant == "None"
Backend == "DocumentAssistant"
NoSession == 0

\* ---- texts: sequences of tokens ----
\* the characters str.strip() removes: those for which str.isspace() holds.
\* A character TLA+ has no escape for is the token of its code point.
Whitespace ==
    { " ", "\t", "\n", "\r", "\f", "U+000B", "U+001C", "U+001D", "U+001E",
      "U+001F", "U+0085", "U+00A0", "U+1680", "U+2000", "U+2001", "U+2002",
      "U+2003", "U+2004", "U+2005", "U+2006", "U+2007", "U+2008", "U+2009",
      "U+200A", "U+2028", "U+2029", "U+202F", "U+205F", "U+3000" }

\* what the user may have typed into #message-input
TypedTexts ==
    { <<>>,
      <<" ", "\t", "\n", "U+3000">>,
      <<"U+00A0", " ", "a", " ", "b", "\t", "\r", "\n">> }

RECURSIVE LStrip(_)
LStrip(s) ==
    IF s # <<>> /\ Head(s) \in Whitespace THEN LStrip(Tail(s)) ELSE s

RECURSIVE RStrip(_)
RStrip(s) ==
    IF s # <<>> /\ s[Len(s)] \in Whitespace
    THEN RStrip(SubSeq(s, 1, Len(s) - 1))
    ELSE s

\* mutant: the input is used as typed
StripNothing(s) == s

\* str.strip(): surrounding whitespace removed, inner whitespace kept
Strip(s) == RStrip(LStrip(s))

\* dict.get(key, default) on a dict modelled as a record
Get(d, k, default) == IF k \in DOMAIN d THEN d[k] ELSE default

\* ---- what the backend may answer ----
\* An optional value (a key that may be absent or None) is a sequence of
\* length 0 or 1 once it is stored in a message's metadata.
QaIntent == [intent_type |-> "qa", reasoning |-> "asks about a document"]
BareIntent == [reasoning |-> "unclear"]
EmptyIntent == [k \in {} |-> 0]

Envelopes ==
    { [success |-> TRUE, response |-> <<"r">>, intent |-> QaIntent,
       tools_used |-> <<"calculator">>, sources |-> <<"INV-001", "INV-002">>],
      [success |-> TRUE, response |-> <<>>, intent |-> BareIntent,
       tools_used |-> <<>>],
      [success |-> FALSE, response |-> <<"stale">>, error |-> <<"document not found">>],
      [success |-> FALSE] }

\* An exception is [type, str(e), mro]: its class, its description and the
\* classes it is an instance of.
\* exceptions process_message may raise: an ordinary error, the
\* StopIteration of an exhausted iterator, and a user-defined
\* "class Fatal(BaseException)"
BackendErrors ==
    { [type |-> "ValueError", str |-> <<"boom">>,
       mro |-> {"ValueError", "Exception", "BaseException"}],
      [type |-> "StopIteration", str |-> <<"boom">>,
       mro |-> {"StopIteration", "Exception", "BaseException"}],
      [type |-> "Fatal", str |-> <<"boom">>,
       mro |-> {"Fatal", "BaseException"}] }

\* instances of StopIteration process_message may raise: StopIteration
\* itself and a user-defined "class EndOfStream(StopIteration)"
StopIterationErrors ==
    { [type |-> "StopIteration", str |-> <<"boom">>,
       mro |-> {"StopIteration", "Exception", "BaseException"}],
      [type |-> "EndOfStream", str |-> <<"boom">>,
       mro |-> {"EndOfStream", "StopIteration", "Exception", "BaseException"}] }

\* evaluating self.assistant.process_message when self.assistant is None
NoneTypeError ==
    [type |-> "AttributeError",
     str |-> <<"'NoneType' object has no attribute 'process_message'">>,
     mro |-> {"AttributeError", "Exception", "BaseException"}]

\* exceptions DocumentAssistant(...) or start_session may raise while the
\* app starts: an ordinary error and a user-defined
\* "class Fatal(BaseException)"
StartupErrors ==
    { [type |-> "RuntimeError", str |-> <<"startup failed">>,
       mro |-> {"RuntimeError", "Exception", "BaseException"}],
      [type |-> "Fatal", str |-> <<"startup aborted">>,
       mro |-> {"Fatal", "BaseException"}] }

\* the interpreters the app runs on, by what they do with an instance of
\* StopIteration raised in the worker thread, each named after a release that
\* shows the behaviour: CPython 3.10.13 (as 3.8.18 and 3.9.18), CPython 3.11.7
\* (as 3.12.1) and CPython 3.13.0
PythonVersions == {"3.10.13", "3.11.7", "3.13.0"}

\* what asyncio's Future.set_exception makes of an instance of StopIteration
\* on CPython 3.13.0
StopIterationConverted ==
    [type |-> "RuntimeError",
     str |-> <<"StopIteration interacts badly with generators and cannot be raised into a Future">>,
     mro |-> {"RuntimeError", "Exception", "BaseException"}]

\* result["success"] with result a str
SubscriptError(version) ==
    [type |-> "TypeError",
     str |-> IF version = "3.10.13"
             THEN <<"string indices must be integers">>
             ELSE <<"string indices must be integers, not 'str'">>,
     mro |-> {"TypeError", "Exception", "BaseException"}]

\* send_message's local e before the except branch binds it
NoException == [type |-> "none", str |-> <<>>, mro |-> {}]

\* "except Exception as e": isinstance(e, Exception)
Catches(e) == "Exception" \in e.mro


VARIABLES
    api_key,       \* whether OPENAI_API_KEY is set in the environment
    python,        \* the interpreter the app runs on, once a StopIteration
                   \* of the worker thread has shown which it is
    assistant,     \* self.assistant
    session_id,    \* self.session_id
    issued,        \* the backend's count of sessions it has started
    session_info,  \* the #session-info panel
    status,        \* the #status-bar text
    chat,          \* the widgets mounted in #chat-container, in order
    input_value,   \* the value of #message-input
    screens,       \* titles of the InfoScreens on the screen stack
    pc,            \* where the App's message pump is: idle, inside a handler, or
                   \* stopped (exited; crashed: an exception left send_message;
                   \* action_failed: one left an action)
    user_message,  \* send_message's local user_message
    now,           \* event-loop time since the current submission, in ticks
    wake,          \* when the pending asyncio.sleep ends
    start_time,    \* send_message's local start_time
    worker,        \* the executor's future for process_message: none yet,
                   \* running, how the latest call ended, or lost (the call
                   \* ended and the future never completes)
    result,        \* what process_message returned, then send_message's local
                   \* result, the value of the await
    raised,        \* the exception the future holds, then the one raised
                   \* inside send_message's try block
    calls,         \* the texts process_message has been called with
    trace,         \* what has happened to the current submission, in order
    completed_at,  \* when process_message ended, while its result is pending
    submissions,   \* Enter / Send presses handled so far
    accepted,      \* of those, the non-blank ones
    raw_input,     \* the input value the latest send_message read
    pending,       \* the actions of the binding keys pressed while a handler
                   \* was running, in order
    submitted_under, \* self.session_id when the current request was submitted
    served_under,  \* the backend's current session when process_message ended
    prompt_log     \* prompts.py: the calls of get_chat_prompt_template, each
                   \* with the template it returned

vars ==
    << api_key, python, assistant, session_id, issued, session_info, status, chat,
       input_value, screens, pc, user_message, now, wake, start_time, worker,
       result, raised, calls, trace, completed_at, submissions, accepted,
       raw_input, pending, submitted_under, served_under, prompt_log >>

\* ---- widgets ----
NoMetadata == [intent |-> <<>>, tools_used |-> <<>>, sources |-> <<>>]

MessageDisplay(role, content, metadata) ==
    [widget |-> "MessageDisplay", role |-> role, content |-> content,
     metadata |-> metadata]

ThinkingIndicator ==
    [widget |-> "thinking-indicator", role |-> "assistant",
     content |-> <<"Thinking...">>, metadata |-> NoMetadata]

WelcomeMessage ==
    MessageDisplay("assistant", <<"Welcome to the Document Assistant!">>, NoMetadata)

IsThinking(w) == w.widget = "thinking-indicator"

\* thinking_msg.remove()
RemoveThinking(widgets) == SelectSeq(widgets, LAMBDA w : ~IsThinking(w))

\* ---- status bar texts ----
StatusInitializing == <<"Initializing assistant...">>
StatusNoKey == <<"Error: OPENAI_API_KEY not found. Please create a .env file.">>
StatusReady == <<"Ready! Type your message below.">>
StatusProcessing == <<"Processing your request...">>
StatusReceived == <<"Response received">>
StatusErrorOccurred == <<"Error occurred">>
StatusNewSession == <<"New session started">>
StatusError(e) == <<"Error: ">> \o e.str

Init ==
    /\ api_key \in BOOLEAN
    /\ python = "unknown"
    /\ assistant = NoAssistant
    /\ session_id = NoSession
    /\ issued = 0
    /\ session_info = [label |-> "none", id |-> NoSession]
    /\ status = <<>>
    /\ chat = <<>>
    /\ input_value = <<>>
    /\ screens = <<>>
    /\ pc = "mounting"
    /\ user_message = <<>>
    /\ now = 0
    /\ wake = 0
    /\ start_time = 0
    /\ worker = "none"
    /\ result = [success |-> FALSE]
    /\ raised = NoException
    /\ calls = <<>>
    /\ trace = <<>>
    /\ completed_at = 0
    /\ submissions = 0
    /\ accepted = 0
    /\ raw_input = <<>>
    /\ pending = <<>>
    /\ submitted_under = NoSession
    /\ served_under = NoSession
    /\ prompt_log = <<>>


\* ---- startup ----
StartupOutcomes == {"ready", "constructor_raises", "start_session_raises"}

\* mutant: on_mount goes on to the backend without the credential
CredentialCheckSkipped == FALSE

\* "if not api_key": the test that ends on_mount before any backend use
CredentialMissing == ~api_key

\* the backend's start_session: a fresh id
FreshSession == issued + 1

\* DocumentAssistant(...) or start_session raises inside the try block:
\* "except Exception as e" writes the status bar and on_mount returns; an
\* exception the clause does not catch leaves on_mount, the status bar still
\* showing the text of line 226, and stops the app
StartupRaised(e) ==
    IF Catches(e)
    THEN status' = StatusError(e) /\ pc' = "idle"
    ELSE status' = StatusInitializing /\ pc' = "startup_crashed"

on_mount(outcome, e) ==
    /\ pc = "mounting"
    /\ IF CredentialMissing
       THEN /\ status' = StatusNoKey
            /\ pc' = "idle"
            /\ UNCHANGED <<assistant, session_id, issued, session_info, chat>>
       ELSE CASE outcome = "constructor_raises" ->
                   /\ StartupRaised(e)
                   /\ UNCHANGED <<assistant, session_id, issued, session_info, chat>>
              [] outcome = "start_session_raises" ->
                   /\ assistant' = Backend
                   /\ StartupRaised(e)
                   /\ UNCHANGED <<session_id, issued, session_info, chat>>
              [] OTHER ->
                   /\ assistant' = Backend
                   /\ session_id' = FreshSession
                   /\ issued' = issued + 1
                   /\ session_info' = [label |-> "Session", id |-> FreshSession]
                   /\ status' = StatusReady
                   /\ chat' = Append(chat, WelcomeMessage)
                   /\ pc' = "idle"
    /\ UNCHANGED <<api_key, python, input_value, screens, user_message, now, wake,
                   start_time, worker, result, raised, calls, trace,
                   submissions, accepted, raw_input,
                   completed_at>>
    /\ UNCHANGED <<pending, submitted_under, served_under>>
    /\ UNCHANGED prompt_log

\* mutant: the handlers start send_message without awaiting it, so the pump
\* takes the next event while the backend call is outstanding
PumpFreeWithoutAwait == pc \in {"idle", "await_result"}

\* ---- the App's message pump ----
\* Textual hands the App one message at a time and awaits its handler
\* ("await self.send_message()"): the next event is handled when the
\* handler has returned.
PumpFree == pc = "idle"

\* send_message is running
Handling ==
    pc \in { "mount_thinking", "status_processing", "sleep_refresh",
             "await_result", "sleep_min", "status_result", "status_error" }

\* ---- send_message, up to its first await ----
\* `value` is what #message-input holds when the submission is handled; a
\* blank one returns, any other clears the input and reaches
\* "await chat.mount(user_msg)": the user's message is mounted and
\* send_message is suspended
send_message(value) ==
    /\ submissions < MaxSubmits
    /\ submissions' = submissions + 1
    /\ raw_input' = value
    /\ LET text == Strip(value)
       IN  IF text = <<>>
           THEN /\ input_value' = value
                /\ UNCHANGED <<pc, user_message, now, wake, start_time, trace,
                               accepted, completed_at, submitted_under, chat>>
           ELSE /\ input_value' = <<>>
                /\ submitted_under' = session_id
                /\ user_message' = text
                /\ accepted' = accepted + 1
                /\ now' = 0
                /\ wake' = 0
                /\ start_time' = 0
                /\ completed_at' = 0
                /\ chat' = Append(chat, MessageDisplay("user", text, NoMetadata))
                /\ trace' = << "user_shown" >>
                /\ pc' = "mount_thinking"
    /\ UNCHANGED <<api_key, python, assistant, session_id, issued, session_info, status,
                   screens, worker, result, raised, calls>>
    /\ UNCHANGED <<pending, served_under>>
    /\ UNCHANGED prompt_log

\* the input and the Send button belong to the chat screen: they get no
\* events while an InfoScreen covers it
ChatScreenActive == screens = <<>>

\* events reach the App in the order they were made: one made now is handled
\* at once when no earlier key press is still waiting
NothingDeferred == pending = <<>>

\* Enter in #message-input
on_input_submitted(value) ==
    PumpFree /\ NothingDeferred /\ ChatScreenActive /\ send_message(value)

\* the Send button
on_button_pressed(value) ==
    PumpFree /\ NothingDeferred /\ ChatScreenActive /\ send_message(value)

\* mutant: send_message goes on to the backend call without an indicator
MountThinkingSkipped ==
    /\ pc = "mount_thinking"
    /\ pc' = "status_processing"
    /\ UNCHANGED <<api_key, python, assistant, session_id, issued, session_info, chat,
                   status, input_value, screens, user_message, now, wake,
                   start_time, worker, result, raised, calls, trace,
                   submissions, accepted, raw_input, completed_at, pending,
                   submitted_under, served_under>>
    /\ UNCHANGED prompt_log

\* await chat.mount(thinking_msg): the indicator is mounted and send_message
\* is suspended, the status bar still showing what it showed
MountThinking ==
    /\ pc = "mount_thinking"
    /\ chat' = Append(chat, ThinkingIndicator)
    /\ trace' = Append(trace, "thinking_shown")
    /\ pc' = "status_processing"
    /\ UNCHANGED <<api_key, python, assistant, session_id, issued, session_info,
                   status, input_value, screens, user_message, now, wake,
                   start_time, worker, result, raised, calls, submissions,
                   accepted, raw_input, completed_at>>
    /\ UNCHANGED <<pending, submitted_under, served_under>>
    /\ UNCHANGED prompt_log

\* resumed after the mount: status.update("Processing your request...");
\* await asyncio.sleep(0.1)
ShowProcessing ==
    /\ pc = "status_processing"
    /\ status' = StatusProcessing
    /\ wake' = now + RefreshDelay
    /\ pc' = "sleep_refresh"
    /\ UNCHANGED <<api_key, python, assistant, session_id, issued, session_info, chat,
                   input_value, screens, user_message, now, start_time, worker,
                   result, raised, calls, trace, submissions, accepted,
                   raw_input, completed_at, pending, submitted_under,
                   served_under, prompt_log>>


\* ---- rendering the outcome ----
Placeholder == <<"No response generated.">>

\* result.get(key) kept as an optional value
Optional(d, k) == IF k \in DOMAIN d THEN <<d[k]>> ELSE <<>>

\* mutant: the response is rendered as the backend gave it
ResponseContentAsIs(res) == res.response

\* result["response"] or "No response generated."
ResponseContent(res) == IF res.response # <<>> THEN res.response ELSE Placeholder

ResponseMessage(res) ==
    MessageDisplay("assistant", ResponseContent(res),
                   [intent |-> Optional(res, "intent"),
                    tools_used |-> Get(res, "tools_used", <<>>),
                    sources |-> Get(res, "sources", <<>>)])

\* mutant: the failure is labelled but the backend's description is dropped
ErrorContentGeneric(res) == <<"Error: ", "Unknown error">>

\* f"Error: {result.get('error', 'Unknown error')}"
ErrorContent(res) == <<"Error: ">> \o Get(res, "error", <<"Unknown error">>)

ErrorMessage(res) == MessageDisplay("assistant", ErrorContent(res), NoMetadata)

\* f"Unexpected error: {str(e)}"
UnexpectedContent(e) == <<"Unexpected error: ">> \o e.str

UnexpectedMessage(e) == MessageDisplay("assistant", UnexpectedContent(e), NoMetadata)

\* send_message returns: its locals are gone and the clock and the record of
\* the request's sessions, which only matter while it runs, rest until the
\* next submission
Return ==
    /\ pc' = "idle"
    /\ now' = 0
    /\ wake' = 0
    /\ start_time' = 0
    /\ completed_at' = 0
    /\ submitted_under' = NoSession
    /\ served_under' = NoSession

\* the except branch up to "await chat.mount(error_msg)": the message is
\* mounted and send_message is suspended before it updates the status bar;
\* an exception the clause does not catch leaves the handler and stops the
\* app
HandleException(e) ==
    IF Catches(e)
    THEN /\ chat' = Append(RemoveThinking(chat), UnexpectedMessage(e))
         /\ trace' = trace \o << "thinking_removed", "unexpected_shown" >>
         /\ pc' = "status_error"
         /\ UNCHANGED <<status, now, wake, completed_at,
                        submitted_under, served_under>>
    ELSE /\ trace' = Append(trace, "propagated")
         /\ pc' = "crashed"
         /\ UNCHANGED <<chat, status, now, wake, completed_at,
                        submitted_under, served_under>>

\* a value the await of line 325 gives that is a str, not the envelope dict
StrResult(value) == [str |-> value]

IsDict(res) == "success" \in DOMAIN res

\* thinking_msg.remove() and, in the "if result['success']" branches,
\* await chat.mount(assistant_msg / error_msg): the message is mounted and
\* send_message is suspended before it updates the status bar. With a str
\* for result, result["success"] raises TypeError after the indicator is
\* removed and the except branch mounts its message
RenderResult(res) ==
    IF IsDict(res)
    THEN /\ chat' = Append(RemoveThinking(chat),
                           IF res.success THEN ResponseMessage(res) ELSE ErrorMessage(res))
         /\ trace' = trace \o << "thinking_removed",
                                 IF res.success THEN "response_shown" ELSE "error_shown" >>
         /\ pc' = "status_result"
         /\ UNCHANGED <<status, now, wake, start_time, completed_at,
                        submitted_under, served_under, raised>>
    ELSE /\ raised' = SubscriptError(python)
         /\ HandleException(SubscriptError(python))
         /\ UNCHANGED start_time

\* the sleep(0.1) ends; start_time is read; process_message is handed to the
\* executor, or self.assistant is None and the attribute access raises
CallBackend ==
    /\ pc = "sleep_refresh"
    /\ now = wake
    /\ start_time' = now
    /\ IF assistant = NoAssistant
       THEN /\ raised' = NoneTypeError
            /\ HandleException(NoneTypeError)
            /\ UNCHANGED <<worker, calls>>
       ELSE /\ worker' = "running"
            /\ calls' = Append(calls, user_message)
            /\ trace' = Append(trace, "call_started")
            /\ pc' = "await_result"
            /\ UNCHANGED <<chat, status, now, wake, completed_at,
                           submitted_under, served_under, raised>>
    /\ UNCHANGED <<api_key, python, assistant, session_id, issued, session_info,
                   input_value, screens, user_message, result,
                   submissions, accepted, raw_input>>
    /\ UNCHANGED pending
    /\ UNCHANGED prompt_log

\* process_message(user_message) is given the text only: the backend serves
\* it under its own current session, the one its latest start_session made
BackendSession == issued

\* the worker thread: process_message returns an envelope
process_message_returns(env) ==
    /\ worker = "running"
    /\ worker' = "returned"
    /\ result' = env
    /\ completed_at' = now
    /\ trace' = Append(trace, "call_completed")
    /\ UNCHANGED <<api_key, python, assistant, session_id, issued, session_info, status,
                   chat, input_value, screens, pc, user_message, now, wake,
                   start_time, raised, calls, submissions, accepted, raw_input>>
    /\ served_under' = BackendSession
    /\ UNCHANGED <<pending, submitted_under>>
    /\ UNCHANGED prompt_log

\* the future "await loop.run_in_executor(...)" waits for takes the
\* exception of the worker thread through Future.set_exception. CPython
\* 3.10.13 and 3.11.7 refuse an exception whose type is StopIteration itself
\* ("type(exception) is StopIteration") and take any other, a subclass
\* included; CPython 3.13.0 takes every exception
Deliverable(version, e) == version = "3.13.0" \/ e.type # "StopIteration"

\* the exception the future then holds: CPython 3.13.0 replaces an
\* instance of StopIteration by a RuntimeError
FutureException(version, e) ==
    IF version = "3.13.0" /\ "StopIteration" \in e.mro
    THEN StopIterationConverted
    ELSE e

\* the interpreters a raise of e can happen on: the one the app runs on is
\* the same for the whole run, and only an instance of StopIteration tells
\* one from the other
InterpretersFor(e) ==
    IF "StopIteration" \notin e.mro THEN {python}
    ELSE IF python = "unknown" THEN PythonVersions
    ELSE {python}

\* the worker thread: process_message raises. The future takes the
\* exception, or refuses it: the thread has ended and the awaited future
\* never completes
process_message_raises(e) ==
    /\ worker = "running"
    /\ \E version \in InterpretersFor(e) :
          /\ python' = version
          /\ IF Deliverable(version, e)
             THEN worker' = "raised" /\ raised' = FutureException(version, e)
             ELSE worker' = "lost" /\ UNCHANGED raised
    /\ completed_at' = now
    /\ trace' = Append(trace, "call_completed")
    /\ UNCHANGED <<api_key, assistant, session_id, issued, session_info, status,
                   chat, input_value, screens, pc, user_message, now, wake,
                   start_time, result, calls, submissions, accepted, raw_input>>
    /\ served_under' = BackendSession
    /\ UNCHANGED <<pending, submitted_under>>
    /\ UNCHANGED prompt_log

\* elapsed = loop.time() - start_time
Elapsed == now - start_time

\* "if elapsed < 0.5"
NeedsMinDisplay == Elapsed < MinDisplay

\* awaiting a future that holds an instance of StopIteration raises nothing:
\* the exception ends the future's iterator and the await returns its value
AwaitReturns == worker = "returned" \/ "StopIteration" \in raised.mro

\* the value of the await: the envelope process_message returned, or the
\* value of the StopIteration, its first argument (the text str(e) gives)
Awaited == IF worker = "returned" THEN result ELSE StrResult(raised.str)

\* the await on the executor future ends
ResumeAfterCall ==
    /\ pc = "await_result"
    /\ worker \in {"returned", "raised"}
    /\ IF ~AwaitReturns
       THEN HandleException(raised) /\ UNCHANGED <<start_time, result, raised>>
       ELSE /\ result' = Awaited
            /\ IF NeedsMinDisplay
               THEN /\ wake' = now + (MinDisplay - Elapsed)
                    /\ pc' = "sleep_min"
                    /\ UNCHANGED <<chat, status, trace, now, start_time,
                                   completed_at, submitted_under, served_under,
                                   raised>>
               ELSE RenderResult(Awaited)
    /\ UNCHANGED <<api_key, python, assistant, session_id, issued, session_info,
                   input_value, screens, user_message, worker,
                   calls, submissions, accepted, raw_input>>
    /\ UNCHANGED pending
    /\ UNCHANGED prompt_log

\* the sleep(0.5 - elapsed) ends
EndMinDisplay ==
    /\ pc = "sleep_min"
    /\ now = wake
    /\ RenderResult(result)
    /\ UNCHANGED <<api_key, python, assistant, session_id, issued, session_info,
                   input_value, screens, user_message, worker, result,
                   calls, submissions, accepted, raw_input>>
    /\ UNCHANGED pending
    /\ UNCHANGED prompt_log

\* resumed after the result message is mounted: status.update and return
ShowResultStatus ==
    /\ pc = "status_result"
    /\ status' = IF result.success THEN StatusReceived ELSE StatusErrorOccurred
    /\ Return
    /\ UNCHANGED <<api_key, python, assistant, session_id, issued, session_info, chat,
                   input_value, screens, user_message, worker, result, raised,
                   calls, trace, submissions, accepted, raw_input, pending,
                   prompt_log>>

\* resumed after the error message of the except branch is mounted:
\* status.update(f"Error: {str(e)}") and return
ShowErrorStatus ==
    /\ pc = "status_error"
    /\ status' = StatusError(raised)
    /\ Return
    /\ UNCHANGED <<api_key, python, assistant, session_id, issued, session_info, chat,
                   input_value, screens, user_message, worker, result, raised,
                   calls, trace, submissions, accepted, raw_input, pending,
                   prompt_log>>

\* time passes while send_message is suspended; a due sleep or a finished
\* future resumes the coroutine before more time passes
Tick ==
    /\ pc \in {"sleep_refresh", "await_result", "sleep_min"}
    /\ now < MaxTime
    /\ pc \in {"sleep_refresh", "sleep_min"} => now < wake
    /\ pc = "await_result" => worker = "running"
    /\ now' = now + 1
    /\ UNCHANGED <<api_key, python, assistant, session_id, issued, session_info, status,
                   chat, input_value, screens, pc, user_message, wake,
                   start_time, worker, result, raised, calls, trace,
                   submissions, accepted, raw_input,
                   completed_at>>
    /\ UNCHANGED <<pending, submitted_under, served_under>>
    /\ UNCHANGED prompt_log

\* ---- key bindings ----
Keys == {"ctrl+q", "ctrl+d", "ctrl+h", "ctrl+n", "f1", "f2"}

\* BINDINGS: the action each key is bound to
BINDINGS ==
    [k \in Keys |->
        CASE k = "ctrl+q" -> "quit"
          [] k \in {"ctrl+d", "f2"} -> "show_docs"
          [] k \in {"ctrl+h", "f1"} -> "show_help"
          [] k = "ctrl+n" -> "new_session"]

\* the action calls push_screen: show_help always, show_docs when there is a
\* backend ("if not self.assistant: return")
Pushes(action) ==
    \/ action = "show_help"
    \/ action = "show_docs" /\ assistant # NoAssistant

\* the action calls start_session ("if self.assistant")
StartsSession(action) == action = "new_session" /\ assistant # NoAssistant

\* the screens and sessions the waiting key presses will ask for
PushesWaiting == Len(SelectSeq(pending, Pushes))

SessionsWaiting == Len(SelectSeq(pending, StartsSession))

\* a binding key pressed while a handler is running waits in the App's
\* message queue until the handler has returned; BINDINGS is fixed, and the
\* queue is kept as the actions the keys are bound to
key_pressed_while_busy(k) ==
    /\ Handling
    /\ Len(pending) < MaxPending
    /\ Pushes(BINDINGS[k]) => Len(screens) + PushesWaiting < MaxScreens
    /\ StartsSession(BINDINGS[k]) => issued + SessionsWaiting < MaxSessions
    /\ pending' = Append(pending, BINDINGS[k])
    /\ UNCHANGED <<api_key, python, assistant, session_id, issued, session_info, status,
                   chat, input_value, screens, pc, user_message, now, wake,
                   start_time, worker, result, raised, calls, trace,
                   completed_at, submissions, accepted, raw_input,
                   submitted_under, served_under>>
    /\ UNCHANGED prompt_log

\* the pump is free and key k is the next event: the earliest key press
\* still waiting, or one made now when none is waiting
BindingDue(k) ==
    /\ PumpFree
    /\ IF NothingDeferred
       THEN UNCHANGED pending
       ELSE Head(pending) = BINDINGS[k] /\ pending' = Tail(pending)

\* a key bound to the action is the next event
ActionDue(action) == \E k \in Keys : BINDINGS[k] = action /\ BindingDue(k)

\* ---- auxiliary actions ----
\* Binding("ctrl+q", "quit"): the App's own action_quit ends the app
action_quit ==
    /\ ActionDue("quit")
    /\ pc' = "exited"
    /\ UNCHANGED <<api_key, python, assistant, session_id, issued, session_info, status,
                   chat, input_value, screens, user_message, now, wake,
                   start_time, worker, result, raised, calls, trace,
                   submissions, accepted, raw_input, completed_at,
                   submitted_under, served_under, prompt_log>>

\* mutant: listing the documents starts a session of its own
action_show_docs_starts_session ==
    /\ ActionDue("show_docs")
    /\ assistant # NoAssistant
    /\ issued < MaxSessions
    /\ session_id' = FreshSession
    /\ issued' = issued + 1
    /\ UNCHANGED <<api_key, python, assistant, session_info, status, screens,
                   chat, input_value, pc, user_message, now, wake, start_time,
                   worker, result, raised, calls, trace, submissions, accepted,
                   raw_input, completed_at, submitted_under, served_under>>
    /\ UNCHANGED prompt_log

action_show_docs ==
    /\ ActionDue("show_docs")
    /\ IF assistant = NoAssistant
       THEN UNCHANGED screens
       ELSE /\ Len(screens) < MaxScreens
            /\ screens' = Append(screens, "Documents")
    /\ UNCHANGED <<api_key, python, assistant, session_id, issued, session_info, status,
                   chat, input_value, pc, user_message, now, wake, start_time,
                   worker, result, raised, calls, trace, submissions, accepted,
                   raw_input,
                   completed_at>>
    /\ UNCHANGED <<submitted_under, served_under>>
    /\ UNCHANGED prompt_log

action_show_help ==
    /\ ActionDue("show_help")
    /\ Len(screens) < MaxScreens
    /\ screens' = Append(screens, "Help")
    /\ UNCHANGED <<api_key, python, assistant, session_id, issued, session_info, status,
                   chat, input_value, pc, user_message, now, wake, start_time,
                   worker, result, raised, calls, trace, submissions, accepted,
                   raw_input,
                   completed_at>>
    /\ UNCHANGED <<submitted_under, served_under>>
    /\ UNCHANGED prompt_log

\* how the backend's start_session ends when action_new_session calls it
StartSessionOutcomes == {"returns", "raises"}

\* mutant: start_session is called and the id it returns is not stored
action_new_session_keeps_old(outcome) ==
    /\ ActionDue("new_session")
    /\ IF assistant = NoAssistant
       THEN UNCHANGED <<session_id, issued, session_info, status, pc>>
       ELSE IF outcome = "raises"
            THEN /\ pc' = "action_failed"
                 /\ UNCHANGED <<session_id, issued, session_info, status>>
            ELSE /\ issued < MaxSessions
                 /\ issued' = issued + 1
                 /\ session_id' = IF session_id = NoSession THEN FreshSession ELSE session_id
                 /\ IF ChatScreenActive
                    THEN /\ session_info' = [label |-> "New Session", id |-> session_id']
                         /\ status' = StatusNewSession
                         /\ UNCHANGED pc
                    ELSE /\ pc' = "action_failed"
                         /\ UNCHANGED <<session_info, status>>
    /\ UNCHANGED <<api_key, python, assistant, chat, input_value, screens,
                   user_message, now, wake, start_time, worker, result, raised,
                   calls, trace, submissions, accepted, raw_input,
                   completed_at>>
    /\ UNCHANGED <<submitted_under, served_under>>
    /\ UNCHANGED prompt_log

\* "if self.assistant": start_session returns a fresh id, which becomes the
\* session, or it raises: nothing in action_new_session catches, the
\* exception leaves the action before anything is assigned and stops the app.
\* self.query_one (425) searches the active screen: with an InfoScreen
\* displayed it finds no #session-info and raises NoMatches, after the
\* session was assigned and before the panel and the status bar are updated
action_new_session(outcome) ==
    /\ ActionDue("new_session")
    /\ IF assistant = NoAssistant
       THEN UNCHANGED <<session_id, issued, session_info, status, pc>>
       ELSE IF outcome = "raises"
            THEN /\ pc' = "action_failed"
                 /\ UNCHANGED <<session_id, issued, session_info, status>>
            ELSE /\ issued < MaxSessions
                 /\ session_id' = FreshSession
                 /\ issued' = issued + 1
                 /\ IF ChatScreenActive
                    THEN /\ session_info' = [label |-> "New Session", id |-> FreshSession]
                         /\ status' = StatusNewSession
                         /\ UNCHANGED pc
                    ELSE /\ pc' = "action_failed"
                         /\ UNCHANGED <<session_info, status>>
    /\ UNCHANGED <<api_key, python, assistant, chat, input_value, screens,
                   user_message, now, wake, start_time, worker, result, raised,
                   calls, trace, submissions, accepted, raw_input,
                   completed_at>>
    /\ UNCHANGED <<submitted_under, served_under>>
    /\ UNCHANGED prompt_log

\* InfoScreen.on_button_pressed: the Close button pops the screen
close_button_pressed ==
    /\ PumpFree
    /\ NothingDeferred
    /\ screens # <<>>
    /\ screens' = SubSeq(screens, 1, Len(screens) - 1)
    /\ UNCHANGED <<api_key, python, assistant, session_id, issued, session_info, status,
                   chat, input_value, pc, user_message, now, wake, start_time,
                   worker, result, raised, calls, trace, submissions, accepted,
                   raw_input,
                   completed_at>>
    /\ UNCHANGED <<pending, submitted_under, served_under>>
    /\ UNCHANGED prompt_log

Next ==
    \/ \E outcome \in StartupOutcomes, e \in StartupErrors : on_mount(outcome, e)
    \/ \E value \in TypedTexts : on_input_submitted(value)
    \/ \E value \in TypedTexts : on_button_pressed(value)
    \/ MountThinking
    \/ ShowProcessing
    \/ CallBackend
    \/ \E env \in Envelopes : process_message_returns(env)
    \/ \E e \in BackendErrors : process_message_raises(e)
    \/ ResumeAfterCall
    \/ EndMinDisplay
    \/ ShowResultStatus
    \/ ShowErrorStatus
    \/ Tick
    \/ \E k \in Keys : key_pressed_while_busy(k)
    \/ action_quit
    \/ action_show_docs
    \/ action_show_help
    \/ \E outcome \in StartSessionOutcomes : action_new_session(outcome)
    \/ close_button_pressed

Spec == Init /\ [][Next]_vars

\* ---- prompts.py ----
QA_SYSTEM_PROMPT == "You are a helpful document assistant ..."
SUMMARIZATION_SYSTEM_PROMPT == "You are an expert document summarizer ..."
CALCULATION_SYSTEM_PROMPT == "You are a precise calculation assistant ..."

\* intent strings a caller may pass
IntentStrings ==
    { "qa", "summarization", "calculation", "unknown", "", "QA", " qa", "calc" }

\* ChatPromptTemplate.from_messages([system, chat_history placeholder, human])
ChatPromptTemplate(system_prompt) ==
    << [message |-> "system", template |-> system_prompt],
       [message |-> "placeholder", template |-> "chat_history"],
       [message |-> "human", template |-> "{input}"] >>

\* mutant: an intent that is not known gets the summarization prompt
get_chat_prompt_template_other_fallback(intent_type) ==
    ChatPromptTemplate(
        IF intent_type = "qa" THEN QA_SYSTEM_PROMPT
        ELSE IF intent_type = "calculation" THEN CALCULATION_SYSTEM_PROMPT
        ELSE SUMMARIZATION_SYSTEM_PROMPT)

get_chat_prompt_template(intent_type) ==
    ChatPromptTemplate(
        IF intent_type = "qa" THEN QA_SYSTEM_PROMPT
        ELSE IF intent_type = "summarization" THEN SUMMARIZATION_SYSTEM_PROMPT
        ELSE IF intent_type = "calculation" THEN CALCULATION_SYSTEM_PROMPT
        ELSE QA_SYSTEM_PROMPT)

\* a caller asks for the template of an intent
prompt_requested(intent_type) ==
    /\ Len(prompt_log) < MaxPrompts
    /\ prompt_log' = Append(prompt_log,
                            [intent_type |-> intent_type,
                             prompt |-> get_chat_prompt_template(intent_type)])
    /\ UNCHANGED <<api_key, python, assistant, session_id, issued, session_info, status,
                   chat, input_value, screens, pc, user_message, now, wake,
                   start_time, worker, result, raised, calls, trace,
                   completed_at, submissions, accepted, raw_input, pending,
                   submitted_under, served_under>>

PromptNext == \E intent_type \in IntentStrings : prompt_requested(intent_type)

\* the module on its own: no app is needed to ask it for templates
PromptSpec == Init /\ [][PromptNext]_vars

\* ---- MessageDisplay.compose: the text a message widget shows ----
\* ", ".join(values)
RECURSIVE Join(_)
Join(values) ==
    IF Len(values) <= 1
    THEN values
    ELSE <<Head(values), ", ">> \o Join(Tail(values))

\* the three "if self.metadata.get(...)" blocks of an assistant message; an
\* intent that is None or an empty dict is false in the test
IntentLine(metadata) ==
    IF metadata.intent # <<>> /\ DOMAIN metadata.intent[1] # {}
    THEN <<"\n\n", "Intent: ", Get(metadata.intent[1], "intent_type", "unknown")>>
    ELSE <<>>

ToolsLine(metadata) ==
    IF metadata.tools_used # <<>>
    THEN <<"\n", "Tools: ">> \o Join(metadata.tools_used)
    ELSE <<>>

SourcesLine(metadata) ==
    IF metadata.sources # <<>>
    THEN <<"\n", "Sources: ">> \o Join(metadata.sources)
    ELSE <<>>

\* mutant: the sources are listed before the tools
composeSourcesFirst(w) ==
    IF w.role = "user"
    THEN <<"You:", "\n">> \o w.content
    ELSE <<"Assistant:", "\n">> \o w.content \o IntentLine(w.metadata)
            \o SourcesLine(w.metadata) \o ToolsLine(w.metadata)

compose(w) ==
    IF w.role = "user"
    THEN <<"You:", "\n">> \o w.content
    ELSE <<"Assistant:", "\n">> \o w.content \o IntentLine(w.metadata)
            \o ToolsLine(w.metadata) \o SourcesLine(w.metadata)

\* ---- rendering, for every shape of successful envelope ----
CalcIntent == [intent_type |-> "calculation", reasoning |-> "asks for a sum"]

\* a key of the envelope that may be missing: no field, or one of `values`
OptionalField(key, values) ==
    { [k \in {} |-> 0] } \cup { [k \in {key} |-> v] : v \in values }

SuccessEnvelopes ==
    { [success |-> TRUE, response |-> r] @@ i @@ t @@ src :
        r \in { <<>>, <<"r">> },
        i \in OptionalField("intent", {QaIntent, CalcIntent, BareIntent, EmptyIntent}),
        t \in OptionalField("tools_used",
                            { <<>>, <<"calculator">>, <<"document_search", "calculator">> }),
        src \in OptionalField("sources",
                              { <<>>, <<"INV-001">>, <<"INV-002", "INV-001">> }) }

\* send_message at the point where process_message has returned a successful
\* envelope, at any time after the call started
ComposeInit ==
    /\ api_key = TRUE
    /\ python = "unknown"
    /\ assistant = Backend
    /\ session_id = 1
    /\ issued = 1
    /\ session_info = [label |-> "Session", id |-> 1]
    /\ status = StatusProcessing
    /\ user_message = <<"a", " ", "b">>
    /\ chat = << WelcomeMessage, MessageDisplay("user", user_message, NoMetadata),
                 ThinkingIndicator >>
    /\ input_value = <<>>
    /\ screens = <<>>
    /\ pc = "await_result"
    /\ start_time = RefreshDelay
    /\ now \in start_time..MaxTime
    /\ wake = start_time
    /\ worker = "returned"
    /\ result \in SuccessEnvelopes
    /\ raised = NoException
    /\ calls = << user_message >>
    /\ trace = << "user_shown", "thinking_shown", "call_started", "call_completed" >>
    /\ completed_at = now
    /\ submissions = 1
    /\ accepted = 1
    /\ raw_input = <<"U+00A0", " ", "a", " ", "b", "\t", "\r", "\n">>
    /\ pending = <<>>
    /\ submitted_under = 1
    /\ served_under = 1
    /\ prompt_log = <<>>

ComposeNext ==
    \/ ResumeAfterCall
    \/ EndMinDisplay
    \/ ShowResultStatus
    \/ Tick

ComposeSpec == ComposeInit /\ [][ComposeNext]_vars

\* ---- a backend call ended by an instance of StopIteration ----
\* a request whose call is running, 0.1 s or later after the submission
StopIterationInit ==
    /\ api_key = TRUE
    /\ python = "unknown"
    /\ assistant = Backend
    /\ session_id = 1
    /\ issued = 1
    /\ session_info = [label |-> "Session", id |-> 1]
    /\ status = StatusProcessing
    /\ user_message = <<"a", " ", "b">>
    /\ chat = << WelcomeMessage, MessageDisplay("user", user_message, NoMetadata),
                 ThinkingIndicator >>
    /\ input_value = <<>>
    /\ screens = <<>>
    /\ pc = "await_result"
    /\ start_time = RefreshDelay
    /\ now \in start_time..MaxTime
    /\ wake = start_time
    /\ worker = "running"
    /\ result = [success |-> FALSE]
    /\ raised = NoException
    /\ calls = << user_message >>
    /\ trace = << "user_shown", "thinking_shown", "call_started" >>
    /\ completed_at = 0
    /\ submissions = 1
    /\ accepted = 1
    /\ raw_input = <<"U+00A0", " ", "a", " ", "b", "\t", "\r", "\n">>
    /\ pending = <<>>
    /\ submitted_under = 1
    /\ served_under = NoSession
    /\ prompt_log = <<>>

StopIterationNext ==
    \/ \E e \in StopIterationErrors : process_message_raises(e)
    \/ ResumeAfterCall
    \/ EndMinDisplay
    \/ ShowErrorStatus
    \/ Tick

StopIterationSpec == StopIterationInit /\ [][StopIterationNext]_vars

\* ---- scheduling ----
\* what the asyncio event loop does for send_message: it resumes the coroutine
\* when its await is over and lets its timers run
EventLoopStep ==
    \/ MountThinking
    \/ ShowProcessing
    \/ CallBackend
    \/ ResumeAfterCall
    \/ EndMinDisplay
    \/ ShowResultStatus
    \/ ShowErrorStatus
    \/ Tick

\* the executor's thread ends process_message, by a return or a raise
WorkerEnds ==
    \/ \E env \in Envelopes : process_message_returns(env)
    \/ \E e \in BackendErrors : process_message_raises(e)

\* the event loop keeps running, and the backend call ends at some time
FairSpec == Spec /\ WF_vars(EventLoopStep) /\ WF_vars(WorkerEnds)


\* ---- properties ----
ThinkingCountOf(widgets) == Len(SelectSeq(widgets, IsThinking))

ThinkingCount == ThinkingCountOf(chat)

CountOf(name, events) == Len(SelectSeq(events, LAMBDA x : x = name))

AllWhitespace(s) == \A i \in 1..Len(s) : s[i] \in Whitespace

IsUserMessage(w) == w.widget = "MessageDisplay" /\ w.role = "user"

\* an assistant message that carries the outcome of a request
IsResult(w) ==
    /\ w.widget = "MessageDisplay"
    /\ w.role = "assistant"
    /\ w.content # WelcomeMessage.content

UserCount == Len(SelectSeq(chat, IsUserMessage))

ResultCount == Len(SelectSeq(chat, IsResult))

\* the current request's outcome message has been mounted
OutcomeShown ==
    \E i \in 1..Len(trace) :
        trace[i] \in {"response_shown", "error_shown", "unexpected_shown"}

\* C1: at most one thinking indicator is displayed, a submission begins only
\* when none is displayed, and a backend call is in flight only for the one
\* submission whose indicator is displayed.
SingleFlight ==
    /\ ThinkingCount <= 1
    /\ pc = "mount_thinking" => ThinkingCount = 0
    /\ pc \in {"mount_thinking", "status_processing", "sleep_refresh"} => worker # "running"
    /\ worker = "running" => pc = "await_result" /\ ThinkingCount = 1

\* C1 witness: a second submission has its call in flight, alone
SecondCallInFlight ==
    /\ accepted = 2
    /\ worker = "running"
    /\ ThinkingCount = 1
    /\ Len(calls) = 2

\* C2: a submission of an empty or whitespace-only input changes nothing:
\* chat, status bar, backend calls, the worker and send_message's position
\* are as before.
BlankSubmissionIsNoOp ==
    [][ (submissions' = submissions + 1 /\ AllWhitespace(raw_input'))
        => UNCHANGED <<chat, status, calls, worker, pc, trace, accepted,
                       assistant, session_id, issued, session_info, screens>> ]_vars

\* C2 witness: a whitespace-only submission has been handled
BlankSubmissionHandled ==
    /\ submissions > accepted
    /\ raw_input # <<>>
    /\ AllWhitespace(raw_input)
    /\ pc = "idle"

\* t is raw without its surrounding whitespace
IsTrimOf(t, raw) ==
    /\ t # <<>>
    /\ t[1] \notin Whitespace
    /\ t[Len(t)] \notin Whitespace
    /\ \E i \in 0..Len(raw) :
          /\ i + Len(t) <= Len(raw)
          /\ AllWhitespace(SubSeq(raw, 1, i))
          /\ SubSeq(raw, i + 1, i + Len(t)) = t
          /\ AllWhitespace(SubSeq(raw, i + Len(t) + 1, Len(raw)))

\* C3 (as claimed): each non-blank submission leads to exactly one
\* process_message call, made with the trimmed input: one call per request at
\* most, and none missing once the call is due, whatever the outcome.
CalledExactlyOnce ==
    /\ CountOf("call_started", trace) <= 1
    /\ Len(calls) <= accepted
    /\ pc \in {"idle", "await_result", "sleep_min", "status_result", "status_error"}
          => Len(calls) = accepted
    /\ (Handling /\ CountOf("call_started", trace) = 1)
          => IsTrimOf(calls[Len(calls)], raw_input)

\* C4 (as claimed): a raise of the backend call does not leave send_message
\* and is not lost: it reaches the except branch, the app keeps running, the
\* indicator is gone and the chat ends with an assistant message "Unexpected
\* error: " followed by the exception's description.
RaiseBecomesErrorMessage ==
    /\ pc # "crashed"
    /\ worker # "lost"
    /\ (pc = "idle" /\ worker = "raised") =>
          /\ ThinkingCount = 0
          /\ chat # <<>>
          /\ LET last == chat[Len(chat)]
             IN  /\ last.widget = "MessageDisplay"
                 /\ last.role = "assistant"
                 /\ last.content # <<>>
                 /\ last.content[1] = "Unexpected error: "
                 /\ Tail(last.content) = raised.str

\* C5: when the backend returns success = false with an error description,
\* the chat ends with "Error: " followed by exactly that description; no
\* failure envelope has its response field rendered.
FailureShowsBackendError ==
    (pc = "idle" /\ worker = "returned" /\ ~result.success) =>
        /\ chat # <<>>
        /\ LET last == chat[Len(chat)]
           IN  /\ IsResult(last)
               /\ last.content[1] = "Error: "
               /\ "error" \in DOMAIN result => Tail(last.content) = result.error
               /\ "response" \in DOMAIN result =>
                     \A i \in 1..Len(last.content) :
                         \A j \in 1..Len(result.response) :
                             last.content[i] # result.response[j]
               /\ last.metadata = NoMetadata

\* C5 witness: a failure envelope with a description and a response field
\* has been rendered
FailureRendered ==
    /\ pc = "idle"
    /\ worker = "returned"
    /\ ~result.success
    /\ "error" \in DOMAIN result
    /\ "response" \in DOMAIN result

\* the backend call of the current request has ended
CallCompleted == CountOf("call_completed", trace) = 1

\* C6 (as claimed): each accepted submission gets exactly one assistant
\* result: none until send_message mounts its outcome, and from then on,
\* through the status update and after the return, one, placed last in the
\* chat; a request whose call has ended and whose outcome is not yet mounted
\* is on its way to mounting it.
ExactlyOneResult ==
    /\ UserCount <= accepted
    /\ (CallCompleted /\ ~OutcomeShown)
          => /\ pc \in {"await_result", "sleep_min"}
             /\ worker \in {"returned", "raised"}
    /\ (Handling /\ ~OutcomeShown) => ResultCount = accepted - 1
    /\ (pc = "idle" \/ (Handling /\ OutcomeShown))
          => ResultCount = accepted /\ UserCount = accepted
    /\ ((pc = "idle" /\ accepted > 0) \/ (Handling /\ OutcomeShown))
          => IsResult(chat[Len(chat)])

\* C7 (as claimed): whatever the outcome of the backend call, send_message
\* stays in the app and can take its next step until it returns; once the
\* outcome is rendered it has only its status update left, which frees the
\* pump; with the pump free a non-blank submission is accepted, and the
\* request that follows an earlier outcome gets a backend call of its own.
StaysInteractive ==
    /\ pc # "crashed"
    /\ (Handling /\ worker # "running") => ENABLED EventLoopStep
    /\ (ResultCount = accepted
          /\ pc \notin {"mounting", "startup_crashed", "exited", "action_failed"})
          => pc \in {"idle", "status_result", "status_error"}
    /\ pc \in {"status_result", "status_error"}
          => ENABLED (ShowResultStatus \/ ShowErrorStatus)
    /\ (pc = "idle" /\ NothingDeferred /\ accepted >= 1 /\ ChatScreenActive
          /\ submissions < MaxSubmits)
          => \A v \in TypedTexts :
                ~AllWhitespace(v) => ENABLED on_input_submitted(v)
    /\ (accepted >= 2 /\ assistant # NoAssistant /\ pc \in {"await_result", "sleep_min", "idle"})
          => Len(calls) = accepted

\* C8 (as claimed): measured from the submission, at time 0, an indicator
\* whose backend call ended before 0.5 is removed at 0.5 or later, and one
\* whose call ended at 0.5 or later is removed at that very time, however
\* the call ended.
MinimumDisplayDuration ==
    [][ (ThinkingCount = 1 /\ ThinkingCountOf(chat') = 0
            /\ CountOf("call_completed", trace) = 1)
        => /\ completed_at < MinDisplay => now >= MinDisplay
           /\ completed_at >= MinDisplay => now = completed_at ]_vars

\* C9: without the credential no backend client and no session ever exist
\* and no backend operation is invoked.
FailClosedStartup ==
    ~api_key =>
        /\ assistant = NoAssistant
        /\ session_id = NoSession
        /\ issued = 0
        /\ calls = <<>>
        /\ worker = "none"

\* C9 witness: the credential is missing, the new-session key did nothing
\* and a submission has been handled to its end
SubmissionWithoutCredential ==
    /\ ~api_key
    /\ accepted >= 1
    /\ pc = "idle"

\* C10 (as claimed): after the missing-credential error a submission starts
\* nothing: no user message, no indicator, no further error message, and the
\* status bar keeps the configuration error.
ConfigErrorBlocksSubmissions ==
    (~api_key /\ pc # "mounting") =>
        /\ chat = <<>>
        /\ status = StatusNoKey
        /\ ~Handling

\* C11: the backend numbers the sessions it starts, so `issued` is the id its
\* latest start_session returned.  The current session is that id whenever a
\* session exists, and every change of session_id installs an id that was
\* never issued before: two new-session actions give two different ids and
\* an earlier id is never current again.
LatestSessionIsCurrent ==
    /\ [](session_id # NoSession => session_id = issued)
    /\ [][ session_id' # session_id
              => /\ session_id' = issued'
                 /\ issued' = issued + 1
                 /\ session_id' \notin 0..issued ]_vars

\* C11 witness: startup left no session (start_session raised), and the
\* new-session action has run twice since
TwoNewSessions ==
    /\ session_id = 2
    /\ issued = 2
    /\ session_info = [label |-> "New Session", id |-> 2]
    /\ \A i \in 1..Len(chat) : chat[i] # WelcomeMessage

\* C12 (as claimed): an auxiliary action (documents, help, new session) taken
\* while no session exists changes neither the backend client, the session,
\* the chat nor the screens displayed.
AuxiliaryNoOpBeforeSession ==
    [][ (session_id = NoSession
            /\ (action_show_docs \/ action_show_help
                \/ \E outcome \in StartSessionOutcomes : action_new_session(outcome)))
        => UNCHANGED <<assistant, session_id, chat, screens>> ]_vars

\* a step send_message or its worker can take
RequestStep == EventLoopStep \/ WorkerEnds

Before(a, b) ==
    \A j \in 1..Len(trace) :
        trace[j] = b => \E i \in 1..(j - 1) : trace[i] = a

Outcomes == {"response_shown", "error_shown", "unexpected_shown"}

\* C14: within a request the events come in the order user message shown,
\* indicator shown, call started, call completed, indicator removed, result
\* shown, each at most once.  The backend is called only with the user
\* message and the indicator on display, and while the indicator is on
\* display nothing is rendered after it.
RequestEventsInOrder ==
    /\ \A i, j \in 1..Len(trace) : trace[i] = trace[j] => i = j
    /\ Before("user_shown", "thinking_shown")
    /\ Before("thinking_shown", "call_started")
    /\ Before("call_started", "call_completed")
    /\ CountOf("call_started", trace) = 1 => Before("call_completed", "thinking_removed")
    /\ Before("thinking_shown", "thinking_removed")
    /\ \A o \in Outcomes : Before("thinking_removed", o)
    /\ worker = "running" =>
          /\ ThinkingCount = 1
          /\ Len(chat) >= 2
          /\ chat[Len(chat) - 1] = MessageDisplay("user", user_message, NoMetadata)
    /\ ThinkingCount = 1 => chat[Len(chat)] = ThinkingIndicator
    /\ (Handling /\ \E i \in 1..Len(trace) : trace[i] \in Outcomes) => ThinkingCount = 0

\* C14 witness: a request answered by a response has gone through all six
\* events
AllSixEvents ==
    /\ pc = "idle"
    /\ trace = << "user_shown", "thinking_shown", "call_started",
                  "call_completed", "thinking_removed", "response_shown" >>
    /\ ThinkingCount = 0
    /\ IsResult(chat[Len(chat)])

\* the status bar shows how a request ended
TerminalStatus ==
    \/ status \in {StatusReceived, StatusErrorOccurred}
    \/ status # <<>> /\ status[1] = "Error: "

\* C15 (as claimed): when every backend call ends, by a return or a raise, an
\* indicator on display is eventually removed and a status bar showing
\* "Processing your request..." eventually shows how the request ended.
ProcessingEnds ==
    (ThinkingCount = 1 \/ status = StatusProcessing)
        ~> (ThinkingCount = 0 /\ TerminalStatus)

\* C16: once a successful envelope is rendered, the assistant message that
\* ends the chat has the placeholder "No response generated." as content when
\* the response was empty and the response itself otherwise; no message in
\* the chat has empty content.
EmptyResponseGetsPlaceholder ==
    /\ (pc = "idle" /\ worker = "returned" /\ result.success) =>
          /\ chat # <<>>
          /\ LET last == chat[Len(chat)]
             IN  /\ IsResult(last)
                 /\ result.response = <<>> => last.content = <<"No response generated.">>
                 /\ result.response # <<>> => last.content = result.response
    /\ \A i \in 1..Len(chat) : chat[i].content # <<>>

\* C16 witness: a successful envelope with an empty response has been
\* rendered
PlaceholderRendered ==
    /\ pc = "idle"
    /\ worker = "returned"
    /\ result.success
    /\ result.response = <<>>
    /\ chat[Len(chat)].content = Placeholder

\* where the token tok first stands in msg, 0 when it does not
PositionOf(tok, msg) ==
    IF \E i \in 1..Len(msg) : msg[i] = tok
    THEN CHOOSE i \in 1..Len(msg) :
            msg[i] = tok /\ \A j \in 1..(i - 1) : msg[j] # tok
    ELSE 0

LineBreaks == {"\n", "\n\n"}

\* the tokens that follow the label up to the end of its line
Section(msg, label) ==
    LET rest == SubSeq(msg, PositionOf(label, msg) + 1, Len(msg))
        ends == { i \in 1..Len(rest) : rest[i] \in LineBreaks }
        stop == IF ends = {} THEN Len(rest) + 1
                ELSE CHOOSE i \in ends : \A j \in ends : i <= j
    IN  SubSeq(rest, 1, stop - 1)

\* the section lists exactly the values, in their order, separated by ", "
ListsExactly(section, values) ==
    /\ values # <<>>
    /\ Len(section) = 2 * Len(values) - 1
    /\ \A i \in 1..Len(values) : section[2 * i - 1] = values[i]
    /\ \A i \in 1..(Len(values) - 1) : section[2 * i] = ", "

\* the envelope has an intent: a mapping that is not empty (spec.md: an
\* intent has at least its type; compose tests the value for truth)
IntentPresent == "intent" \in DOMAIN result /\ DOMAIN result.intent # {}

\* C17: the text shown for a successful envelope is the response (or the
\* placeholder), then a line "Intent: " exactly when the envelope has an
\* intent, a line "Tools: " exactly when tools_used is not empty and a line
\* "Sources: " exactly when sources is not empty, in this order and nothing
\* else; the lines list the intent type (or "unknown" when the intent has
\* none) and the backend's tools and sources, unchanged and in its order.
AnnotationsFollowResponse ==
    (pc = "idle" /\ worker = "returned" /\ result.success) =>
        LET msg == compose(chat[Len(chat)])
            content == IF result.response = <<>>
                       THEN <<"No response generated.">>
                       ELSE result.response
            tools == Get(result, "tools_used", <<>>)
            sources == Get(result, "sources", <<>>)
            body == 2 + Len(content)
            pi == PositionOf("Intent: ", msg)
            pt == PositionOf("Tools: ", msg)
            ps == PositionOf("Sources: ", msg)
        IN  /\ SubSeq(msg, 1, body) = <<"Assistant:", "\n">> \o content
            /\ pi > 0 <=> IntentPresent
            /\ pt > 0 <=> tools # <<>>
            /\ ps > 0 <=> sources # <<>>
            /\ pi > 0 =>
                  /\ pi > body
                  /\ Section(msg, "Intent: ") =
                        << IF "intent_type" \in DOMAIN result.intent
                           THEN result.intent.intent_type
                           ELSE "unknown" >>
            /\ pt > 0 =>
                  /\ pt > body /\ pt > pi
                  /\ ListsExactly(Section(msg, "Tools: "), tools)
            /\ ps > 0 =>
                  /\ ps > body /\ ps > pi /\ ps > pt
                  /\ ListsExactly(Section(msg, "Sources: "), sources)
            /\ Len(msg) = body + (IF pi > 0 THEN 3 ELSE 0)
                               + (IF pt > 0 THEN 1 + 2 * Len(tools) ELSE 0)
                               + (IF ps > 0 THEN 1 + 2 * Len(sources) ELSE 0)

\* C17 witness: the envelope has a response and the one source INV-001, no
\* intent and no tools; the message shows the response and "Sources: INV-001"
OnlySourcesAnnotated ==
    /\ pc = "idle"
    /\ worker = "returned"
    /\ DOMAIN result = {"success", "response", "sources"}
    /\ result.sources = <<"INV-001">>
    /\ compose(chat[Len(chat)])
          = <<"Assistant:", "\n", "r", "\n", "Sources: ", "INV-001">>

\* C18: self.session_id changes only in on_mount and action_new_session, to
\* the id start_session has just returned; self.assistant changes only in
\* on_mount; no step of send_message, on any of its paths, and neither
\* action_show_docs nor action_show_help changes either of them.
SessionWrittenByStartSessionOnly ==
    [][ /\ session_id' # session_id
              => /\ pc = "mounting"
                    \/ \E outcome \in StartSessionOutcomes : action_new_session(outcome)
                 /\ issued' = issued + 1
                 /\ session_id' = issued'
        /\ assistant' # assistant => pc = "mounting"
        /\ (Handling \/ submissions' # submissions
                \/ action_show_docs \/ action_show_help)
              => UNCHANGED <<assistant, session_id>> ]_vars

\* C18 witness: a request ended in the except branch and an InfoScreen was
\* opened afterwards; the session of startup is still the current one
SessionKeptThroughFailure ==
    /\ pc = "idle"
    /\ worker = "raised"
    /\ accepted >= 1
    /\ screens # <<>>
    /\ assistant = Backend
    /\ session_id = 1
    /\ session_info.label = "Session"

\* C19: get_chat_prompt_template answers every intent string: the template
\* for "summarization" carries the summarization prompt, the one for
\* "calculation" the calculation prompt, and the one for "qa" and for every
\* other string, "unknown" and the empty string among them, the Q&A prompt;
\* two calls with the same string give the same template.
PromptDispatch ==
    /\ \A n \in 1..Len(prompt_log) :
          LET call == prompt_log[n]
              system == call.prompt[1]
          IN  /\ Len(call.prompt) = 3
              /\ system.message = "system"
              /\ call.intent_type = "summarization"
                    => system.template = "You are an expert document summarizer ..."
              /\ call.intent_type = "calculation"
                    => system.template = "You are a precise calculation assistant ..."
              /\ call.intent_type \notin {"summarization", "calculation"}
                    => system.template = "You are a helpful document assistant ..."
    /\ \A m, n \in 1..Len(prompt_log) :
          prompt_log[m].intent_type = prompt_log[n].intent_type
              => prompt_log[m].prompt = prompt_log[n].prompt

\* C19 witness: the templates for "unknown" and for the empty string have
\* been asked for, and both carry the Q&A prompt
FallbackSelected ==
    /\ Len(prompt_log) = 2
    /\ prompt_log[1].intent_type = "unknown"
    /\ prompt_log[2].intent_type = ""
    /\ prompt_log[1].prompt[1].template = QA_SYSTEM_PROMPT
    /\ prompt_log[2].prompt = prompt_log[1].prompt

WelcomeShown == \E i \in 1..Len(chat) : chat[i] = WelcomeMessage

\* on_mount ended in its except clause
StartupFailed == \E e \in StartupErrors : Catches(e) /\ status = StatusError(e)

\* C20 (as claimed): a session is held only together with a backend client,
\* and the welcome message is in the chat only when the client was built and
\* a session started.  An exception of the constructor or of start_session
\* in on_mount is caught, none leaves on_mount, and while the status bar
\* shows the startup error there is no session and no welcome message.
SessionNeedsAssistant ==
    /\ session_id # NoSession => assistant # NoAssistant
    /\ WelcomeShown => (assistant # NoAssistant /\ session_id # NoSession)
    /\ pc # "startup_crashed"
    /\ StartupFailed => (session_id = NoSession /\ ~WelcomeShown)

====
